---- MODULE Spec2Model ----
(***************************************************************************)
(* The signing core of the wallet (BaseWalletUnlocked): message and        *)
(* transaction signing, witness population, and the two submission modes   *)
(* (sendTransaction, simulateTransaction).                                 *)
(*                                                                         *)
(* A call of an async method is a record in `calls`; its pc names the      *)
(* await it is suspended at.  Every action runs the code from one          *)
(* suspension point to the next, as the JavaScript event loop does.        *)
(* Hashes and signatures are symbolic terms (collision-free hashing).      *)
(***************************************************************************)
EXTENDS Integers, Sequences, FiniteSets, TLC

\* tx:      the TransactionRequest the calls work on.  It is handed in as a request
\*          object, which transactionRequestify returns as it is, so every call
\*          reads and writes this one object.
\* chainId: the chain id the provider reports.
\* calls:   the calls of the wallet's methods, each with its program counter, its
\*          local signature, the log of the steps it took, the values it passed to
\*          collaborators and its outcome.
\* cli:     the call of runScaffoldCli: its program counter, its arguments, the
\*          values it settled on, its outcome and the steps it took on the disk.
\* fs:      the disk the scaffold CLI works on: the template it ships with and the
\*          directories that exist.
VARIABLES tx, chainId, calls, cli, fs

vars == <<tx, chainId, calls, cli, fs>>

\* The state of the wallet and the state of the scaffold CLI: neither program
\* touches the state of the other.
walletVars == <<tx, chainId, calls>>

cliVars == <<cli, fs>>

\* ------------------------------------------------------------------ bounds
\* Longest input list of a transaction.
MaxInputs == 2
\* Longest witness list a caller hands in.
MaxWitnesses == 2
\* Chain ids the provider may report: 1..MaxChainId.
MaxChainId == 2

\* The promises that may be pending at once.
Calls == {1, 2}

\* ---------------------------------------------------------------- KeyHolder
WalletKey == "k1"
OtherKey == "k2"

PublicKeyOf(k) == IF k = "k1" THEN "P1" ELSE "P2"

AddressOf(k) == IF k = "k1" THEN "A1" ELSE "A2"

\* new Signer(privateKey)
Signer(k) == [privateKey |-> k, publicKey |-> PublicKeyOf(k), address |-> AddressOf(k)]

\* The wallet's signer, fixed at construction; this.signer() returns it.
signer == Signer(WalletKey)

\* The wallet's address: super(signer.address, provider).
address == signer.address

NoOwner == "none"

Owners == {address, AddressOf(OtherKey)}

\* ------------------------------------------------------------ digests
NoDigest == [dom |-> "none", chainId |-> 0, inputs |-> <<>>, outputs |-> 0, msg |-> ""]

\* transactionRequest.getTransactionId(chainId): the hash of the chain id and
\* of the signable fields, the witnesses left out.
getTransactionId(t, c) ==
  [dom |-> "tx", chainId |-> c, inputs |-> t.inputs, outputs |-> t.outputs, msg |-> ""]

\* The bytes of a text message.
TextBytes(m) == [chainId |-> 0, inputs |-> <<>>, outputs |-> 0, msg |-> m]

\* The bytes getTransactionId hashes: the chain id and the signable fields.
TxBytes(t, c) == [chainId |-> c, inputs |-> t.inputs, outputs |-> t.outputs, msg |-> ""]

\* The message hash of the bytes b, in the message domain.
hashMessageBytes(b) ==
  [dom |-> "msg", chainId |-> b.chainId, inputs |-> b.inputs, outputs |-> b.outputs,
   msg |-> b.msg]

\* hashMessage(message)
hashMessage(m) == hashMessageBytes(TextBytes(m))

\* Signer.sign(digest) with private key k.
Sign(k, d) == [signer |-> PublicKeyOf(k), digest |-> d]

\* Signature verification against a public key and a digest.
Verify(s, pub, d) == s.signer = pub /\ s.digest = d

\* The empty placeholder of a witness slot.
EmptyWitness == [signer |-> "none", digest |-> NoDigest]

\* A witness of the other owner.
OtherWitness == Sign(OtherKey, NoDigest)

\* ------------------------------------------------------- TransactionRequest
EmptyTx == [inputs |-> <<>>, outputs |-> 0, witnesses |-> <<>>]

\* The witness slot of the owner of os[i]: owners take slots in first-seen order.
OwnerSlot(os, i) ==
  LET first == CHOOSE j \in 1..i : os[j] = os[i] /\ \A k \in 1..(j - 1) : os[k] # os[i]
  IN Cardinality({os[k] : k \in 1..(first - 1)} \ {NoOwner})

\* The inputs of a transaction whose inputs are owned by os, in order.
MkInputs(os) ==
  [i \in 1..Len(os) |->
     [owner |-> os[i], witnessIndex |-> IF os[i] = NoOwner THEN 0 ELSE OwnerSlot(os, i)]]

OwnerSeqs == UNION {[1..n -> Owners \cup {NoOwner}] : n \in 0..MaxInputs}

WitnessLists == UNION {[1..n -> {EmptyWitness, OtherWitness}] : n \in 0..MaxWitnesses}

\* A contract input, owned by no address.
ContractInput == [owner |-> NoOwner, witnessIndex |-> 0]

\* resolveWitnessIndex: the witness index of the first input owned by `owner`, -1 if none.
getCoinInputWitnessIndexByOwner(t, owner) ==
  LET owned == {i \in 1..Len(t.inputs) : t.inputs[i].owner = owner}
  IN IF owned = {} THEN -1
     ELSE t.inputs[CHOOSE i \in owned : \A j \in owned : i <= j].witnessIndex

\* The witness list with slot idx (0-based) set to w, grown with placeholders up to it.
SetSlot(ws, idx, w) ==
  IF idx < Len(ws) THEN [ws EXCEPT ![idx + 1] = w]
  ELSE ws \o [i \in 1..(idx - Len(ws)) |-> EmptyWitness] \o <<w>>

\* transactionRequest.updateWitnessByOwner(owner, signature)
updateWitnessByOwner(t, owner, s) ==
  LET idx == getCoinInputWitnessIndexByOwner(t, owner)
  IN IF idx < 0 THEN [ok |-> FALSE, tx |-> t, err |-> "UnknownOwnerError"]
     ELSE [ok |-> TRUE, tx |-> [t EXCEPT !.witnesses = SetSlot(@, idx, s)], err |-> "none"]

\* ----------------------------------------------------------------- Provider
ProviderErrors == {"Timeout", "Rejected"}

\* provider.estimateTxDependencies(tx): the transactions it may leave behind.
EstimateRewrites(t) ==
  {t} \cup
  (IF Len(t.inputs) < MaxInputs
   THEN {[t EXCEPT !.inputs = Append(@, ContractInput), !.outputs = @ + 1]}
   ELSE {})

\* What provider.sendTransaction / provider.call may do to the transaction they are
\* handed: they estimate dependencies themselves unless told not to.
ProviderRewrites(t, opts) ==
  IF opts.estimateTxDependencies = "false" THEN {t} ELSE EstimateRewrites(t)

\* -------------------------------------------------------------- values
\* A value returned to the caller or passed to a collaborator.
StrVal(s) == [t |-> "string", v |-> s]
SigVal(s) == [t |-> "signature", v |-> s]
TxVal(t) == [t |-> "tx", v |-> t]
OptsVal(o) == [t |-> "options", v |-> o]
ResultVal(r) == [t |-> "result", v |-> r]
NoVal == [t |-> "none", v |-> ""]

NoOpts == [awaitExecution |-> "omitted", estimateTxDependencies |-> "omitted",
           utxoValidation |-> "omitted"]

\* An option as the caller gives it: true, false, or left out.
OptionValues == {"true", "false", "omitted"}

\* ------------------------------------------------------------------ scaffold CLI
\* The Sway programs of the template.
Programs == {"contract", "predicate", "script"}

\* The keys of a ProgramsToInclude object, in the order Object.entries gives them.
ProgramKeys == <<"contract", "predicate", "script">>

\* A ProgramsToInclude object.
ProgramSelections == [Programs -> BOOLEAN]

\* A ProgramsToInclude object from the values the multiselect prompt returned.
Selected(chosen) == [p \in Programs |-> p \in chosen]

\* An argument left out, a prompt the user cancelled.
Undefined == "<undefined>"

\* explicitProgramsToInclude left out.
NoPrograms == [t |-> "undefined"]

\* A value JavaScript's || and ! take as false.
Falsy(v) == v \in {"", Undefined}

\* The project path that is free when the CLI first runs, and one that is taken.
FreePath == "my-fuel-project"

TakenPath == "existing-folder"

\* What a project path argument or the answer to its prompt can be.
PathValues == {Undefined, "", FreePath, TakenPath}

PackageManagers == {"pnpm", "npm"}

\* The arguments of runScaffoldCli.
ScaffoldArgs ==
  [projectPath : PathValues,
   packageManager : PackageManagers \cup {Undefined},
   shouldInstallDeps : OptionValues,
   programs : ProgramSelections \cup {NoPrograms}]

\* The files and directories of templates/nextjs the CLI refers to.
TemplateFiles ==
  {"gitignore", "env", "package.json", "src/pages/index.tsx",
   "src/pages/predicate.tsx", "src/pages/script.tsx",
   "sway-programs/Forc.toml", "sway-programs/contract",
   "sway-programs/predicate", "sway-programs/script"}

\* The orders the workspace members of the template's Forc.toml can stand in.
MemberOrders ==
  {m \in [1..Cardinality(Programs) -> Programs] :
     \A i, j \in DOMAIN m : m[i] = m[j] => i = j}

\* A line of an env file.
EnvLine(name, value) == [name |-> name, value |-> value]

\* String.prototype.toUpperCase on the names of the programs.
toUpperCase(program) ==
  CASE program = "contract" -> "CONTRACT"
    [] program = "predicate" -> "PREDICATE"
    [] program = "script" -> "SCRIPT"

\* A boolean in a template literal.
BoolText(b) == IF b THEN "true" ELSE "false"

\* The env file of the template: every program switched on.
TemplateEnv ==
  [i \in DOMAIN ProgramKeys |->
     EnvLine("NEXT_PUBLIC_HAS_" \o toUpperCase(ProgramKeys[i]), "true")]

\* A directory: the paths in it, the workspace members of its Forc.toml, the lines
\* of its env file (env, later .env.local), and whether its dependencies are
\* installed.
Template(m) ==
  [files |-> TemplateFiles, members |-> m, env |-> TemplateEnv, installed |-> FALSE]

EmptyDir == [files |-> {}, members |-> <<>>, env |-> <<>>, installed |-> FALSE]

\* A folder someone else made.
OtherDir == [files |-> {"notes.txt"}, members |-> <<>>, env |-> <<>>, installed |-> FALSE]

\* fs.existsSync
existsSync(f, path) == path \in DOMAIN f.dirs

\* fs.rename inside a directory
rename(d, from, to) == [d EXCEPT !.files = (@ \ {from}) \cup {to}]

\* fs.rmSync inside a directory
rmSync(d, path) == [d EXCEPT !.files = @ \ {path}]

\* writeEnvFile on .env.local
writeEnvFile(d, programsToInclude) ==
  [d EXCEPT !.files = @ \cup {".env.local"},
            !.env = [i \in DOMAIN ProgramKeys |->
                       EnvLine("NEXT_PUBLIC_HAS_" \o toUpperCase(ProgramKeys[i]),
                               BoolText(programsToInclude[ProgramKeys[i]]))]]

\* The members put in the order of the keys of the selection.
processWorkspaceTomlByKeys(members, programsToInclude) ==
  SelectSeq(ProgramKeys, LAMBDA m : programsToInclude[m])

\* processWorkspaceToml, on the members of the parsed file
processWorkspaceToml(members, programsToInclude) ==
  SelectSeq(members, LAMBDA m : programsToInclude[m])

\* The programs that are not included deleted.
DeleteExcluded(d, programsToInclude) ==
  LET a == IF ~programsToInclude["contract"]
           THEN rmSync(d, "sway-programs/contract") ELSE d
      b == IF ~programsToInclude["predicate"]
           THEN rmSync(rmSync(a, "sway-programs/predicate"), "src/pages/predicate.tsx")
           ELSE a
  IN IF ~programsToInclude["script"]
     THEN rmSync(rmSync(b, "sway-programs/script"), "src/pages/script.tsx")
     ELSE b

\* Forc.toml read, its members filtered, and written back.
RewriteForcToml(d, programsToInclude) ==
  [d EXCEPT !.members = processWorkspaceToml(@, programsToInclude)]

\* The package manager's install in the directory.
Install(d) == [d EXCEPT !.files = @ \cup {"node_modules"}, !.installed = TRUE]

\* shouldInstallDeps = true in the parameter list
InstallOption(given) == given # "false"

IdleCli ==
  [pc |-> "idle", args |-> [t |-> "none"], projectPath |-> Undefined,
   packageManager |-> Undefined, programsToInclude |-> NoPrograms,
   err |-> "none", before |-> <<>>, effects |-> <<>>]

\* The disk before the CLI ever ran, its template with the members in order m.
FreshFs(m) == [template |-> Template(m), dirs |-> (TakenPath :> OtherDir)]

Throw(s, e) == [s EXCEPT !.pc = "failed", !.err = e]

\* The errors runScaffoldCli throws itself.
ValidationErrors ==
  {"A folder already exists", "Please specify a project directory.",
   "You must include at least one Sway program."}

\* No check of the selection.
NoProgramSelectedUnchecked(p) == FALSE

NoProgramSelected(p) == ~p["contract"] /\ ~p["predicate"] /\ ~p["script"]

\* The selection settled: checked, and on to mkdir.
CheckPrograms(s) ==
  IF NoProgramSelected(s.programsToInclude)
  THEN Throw(s, "You must include at least one Sway program.")
  ELSE [s EXCEPT !.pc = "mkdir"]

\* The package manager settled: the selection is the argument, or prompted for.
ChoosePrograms(s) ==
  IF s.args.programs # NoPrograms
  THEN CheckPrograms([s EXCEPT !.programsToInclude = s.args.programs])
  ELSE [s EXCEPT !.pc = "promptForProgramsToInclude"]

\* The project path checked: the package manager is the argument, or prompted for.
ChoosePackageManager(s) ==
  IF ~Falsy(s.args.packageManager)
  THEN ChoosePrograms([s EXCEPT !.packageManager = s.args.packageManager])
  ELSE [s EXCEPT !.pc = "promptForPackageManager"]

\* The project path settled: the two checks of it.
CheckProjectPath(s, f) ==
  IF existsSync(f, s.projectPath) THEN Throw(s, "A folder already exists")
  ELSE IF Falsy(s.projectPath) THEN Throw(s, "Please specify a project directory.")
  ELSE ChoosePackageManager(s)

\* A directory made or replaced at path.
Put(dirs, path, d) ==
  [q \in DOMAIN dirs \cup {path} |-> IF q = path THEN d ELSE dirs[q]]

\* runScaffoldCli, from its call to its first prompt, its first throw, or mkdir.
runScaffoldCli ==
  /\ cli.pc = "idle"
  /\ \E a \in ScaffoldArgs :
       LET s == [IdleCli EXCEPT !.args = a, !.before = fs.dirs]
       IN cli' = IF ~Falsy(a.projectPath)
                 THEN CheckProjectPath([s EXCEPT !.projectPath = a.projectPath], fs)
                 ELSE [s EXCEPT !.pc = "promptForProjectPath"]
  /\ UNCHANGED <<fs, walletVars>>

\* promptForProjectPath answered, or cancelled.
promptForProjectPath ==
  /\ cli.pc = "promptForProjectPath"
  /\ \E answer \in PathValues :
       cli' = CheckProjectPath([cli EXCEPT !.projectPath = answer], fs)
  /\ UNCHANGED <<fs, walletVars>>

\* promptForPackageManager answered, or cancelled.
promptForPackageManager ==
  /\ cli.pc = "promptForPackageManager"
  /\ \E answer \in PackageManagers \cup {Undefined} :
       cli' = ChoosePrograms([cli EXCEPT !.packageManager = answer])
  /\ UNCHANGED <<fs, walletVars>>

\* promptForProgramsToInclude answered; cancelled, the answer has no
\* programsToInclude and the call of includes on it throws.
promptForProgramsToInclude ==
  /\ cli.pc = "promptForProgramsToInclude"
  /\ \/ \E chosen \in SUBSET Programs :
          cli' = CheckPrograms([cli EXCEPT !.programsToInclude = Selected(chosen)])
     \/ cli' = Throw(cli, "TypeError")
  /\ UNCHANGED <<fs, walletVars>>

\* await mkdir(projectPath): the directory made, or the call rejected.
Mkdir ==
  /\ cli.pc = "mkdir"
  /\ \/ /\ ~existsSync(fs, cli.projectPath)
        /\ fs' = [fs EXCEPT !.dirs = Put(@, cli.projectPath, EmptyDir)]
        /\ cli' = [cli EXCEPT !.pc = "cp", !.effects = Append(@, "mkdir")]
     \/ /\ cli' = Throw(cli, "EACCES")
        /\ fs' = fs
  /\ UNCHANGED walletVars

\* await cp(template, projectPath, { recursive: true })
Cp ==
  /\ cli.pc = "cp"
  /\ fs' = [fs EXCEPT !.dirs = Put(@, cli.projectPath, fs.template)]
  /\ cli' = [cli EXCEPT !.pc = "renameGitignore", !.effects = Append(@, "cp")]
  /\ UNCHANGED walletVars

\* await rename(gitignore, .gitignore)
RenameGitignore ==
  /\ cli.pc = "renameGitignore"
  /\ fs' = [fs EXCEPT !.dirs[cli.projectPath] = rename(@, "gitignore", ".gitignore")]
  /\ cli' = [cli EXCEPT !.pc = "renameEnv", !.effects = Append(@, "rename")]
  /\ UNCHANGED walletVars

\* await rename(env, .env.local) and, with no further await, the rest of
\* runScaffoldCli: the env file written, the programs left out deleted, Forc.toml
\* rewritten, and the dependencies installed if they should be.  execSync throws
\* when the install fails, as it does when no package manager was chosen.
WriteProject ==
  /\ cli.pc = "renameEnv"
  /\ LET p == cli.programsToInclude
         renamed == rename(fs.dirs[cli.projectPath], "env", ".env.local")
         d == RewriteForcToml(DeleteExcluded(writeEnvFile(renamed, p), p), p)
         written == [cli EXCEPT !.effects = @ \o <<"rename", "writeFileSync", "rmSync">>]
     IN IF InstallOption(cli.args.shouldInstallDeps)
        THEN \/ /\ ~Falsy(cli.packageManager)
                /\ fs' = [fs EXCEPT !.dirs[cli.projectPath] = Install(d)]
                /\ cli' = [written EXCEPT !.pc = "done", !.effects = Append(@, "install")]
             \/ /\ fs' = [fs EXCEPT !.dirs[cli.projectPath] = d]
                /\ cli' = Throw(written, "Command failed")
        ELSE /\ fs' = [fs EXCEPT !.dirs[cli.projectPath] = d]
             /\ cli' = [written EXCEPT !.pc = "done"]
  /\ UNCHANGED walletVars

\* The caller takes the outcome; the CLI can be run again.
ScaffoldReturn ==
  /\ cli.pc \in {"done", "failed"}
  /\ cli' = IdleCli
  /\ UNCHANGED <<fs, walletVars>>

\* ------------------------------------------------------------------ calls
IdleCall ==
  [pc |-> "idle", kind |-> "none", est |-> "omitted", aw |-> "omitted",
   sig |-> EmptyWitness, log |-> <<>>, sent |-> <<>>, start |-> EmptyTx,
   handed |-> EmptyTx, opts |-> NoOpts, entry |-> "none", ret |-> NoVal,
   err |-> "none", raised |-> "none"]

Init ==
  /\ \E os \in OwnerSeqs, ws \in WitnessLists :
       tx = [inputs |-> MkInputs(os), outputs |-> 0, witnesses |-> ws]
  /\ chainId \in 1..MaxChainId
  /\ calls = [c \in Calls |-> IdleCall]
  /\ cli = IdleCli
  /\ fs = FreshFs(ProgramKeys)

\* The error caught and wrapped in one of the wallet's own.
PropagateWrapped(cr, e) == [cr EXCEPT !.pc = "failed", !.err = "WalletError"]

\* The error caught and the call carried on into witness population.
PropagateRecovered(cr, e) == [cr EXCEPT !.pc = "awaitSignTransaction"]

\* A rejected promise reaches the caller as it is: no catch, no retry.
Propagate(cr, e) == [cr EXCEPT !.pc = "failed", !.err = e]

\* The collaborator raises e: the call logs it and the error takes its way out.
Raise(cr, ev, e) == Propagate([cr EXCEPT !.log = Append(@, ev), !.raised = e], e)

\* The option without its default: left out, no estimation.
EstimateOptionNoDefault(o) == o = "true"

\* { estimateTxDependencies = true }: the default of the option.
EstimateOption(o) == IF o = "omitted" THEN TRUE ELSE o = "true"

\* The estimateTxDependencies option forwarded as the caller gave it.
SendOptionsForwarded(cr) ==
  [awaitExecution |-> cr.aw, estimateTxDependencies |-> cr.est, utxoValidation |-> "omitted"]

\* { awaitExecution, estimateTxDependencies: false }
SendOptions(cr) ==
  [awaitExecution |-> cr.aw, estimateTxDependencies |-> "false", utxoValidation |-> "omitted"]

\* { utxoValidation: true, estimateTxDependencies: false }
CallOptions ==
  [awaitExecution |-> "omitted", estimateTxDependencies |-> "false", utxoValidation |-> "true"]

\* Every call ending in the committing entry point.
ProviderEntryAlwaysSend(kind) == "provider.sendTransaction"

\* The provider entry point a call ends in.
ProviderEntry(kind) == IF kind = "send" THEN "provider.sendTransaction" ELSE "provider.call"

\* The options of that entry point.
ProviderOptions(cr) == IF cr.kind = "send" THEN SendOptions(cr) ELSE CallOptions

\* this.provider.getChain().consensusParameters.chainId.toNumber()
SigningChainId == chainId

\* The digest taken without the provider's chain id.
hashedTransactionNoChain(t) == getTransactionId(t, 0)

\* The digest of an earlier signature of the wallet found in its slot, reused.
hashedTransactionCached(t) ==
  LET idx == getCoinInputWitnessIndexByOwner(t, address)
  IN IF idx >= 0 /\ idx < Len(t.witnesses) /\ t.witnesses[idx + 1].signer = signer.publicKey
     THEN t.witnesses[idx + 1].digest
     ELSE getTransactionId(t, SigningChainId)

\* The digest taken of the transaction with its inputs left out.
hashedTransactionNoInputs(t) == getTransactionId([t EXCEPT !.inputs = <<>>], SigningChainId)

\* transactionRequest.getTransactionId(chainId): what signTransaction signs.
hashedTransaction(t) == getTransactionId(t, SigningChainId)

\* The digest taken of the transaction as the call received it, before estimation.
signTransactionSyncBeforeEstimate(cr, t) ==
  {[cr EXCEPT !.pc = "awaitSign",
              !.sig = Sign(signer.privateKey, getTransactionId(cr.start, SigningChainId)),
              !.log = @ \o <<"getChain", "digest", "sign">>]}
  \cup {Raise(cr, "getChain.err", e) : e \in ProviderErrors}

\* signTransaction up to its await: chain id, digest, signature.  The results: the
\* call suspended at the await with its signature, or failed in getChain().
signTransactionSync(cr, t) ==
  {[cr EXCEPT !.pc = "awaitSign",
              !.sig = Sign(signer.privateKey, hashedTransaction(t)),
              !.log = @ \o <<"getChain", "digest", "sign">>]}
  \cup {Raise(cr, "getChain.err", e) : e \in ProviderErrors}

\* The call starts: the code up to its first await.
Begin(c, kind, optEst, optAw) ==
  /\ calls[c].pc = "idle"
  /\ LET cr == [IdleCall EXCEPT !.kind = kind, !.est = optEst, !.aw = optAw, !.start = tx]
     IN IF EstimateOption(optEst)
        THEN calls' = [calls EXCEPT ![c] =
                 [cr EXCEPT !.pc = "awaitEstimate",
                            !.log = <<"estimate.call">>,
                            !.sent = <<TxVal(tx)>>]]
        ELSE \E n \in signTransactionSync(cr, tx) : calls' = [calls EXCEPT ![c] = n]
  /\ UNCHANGED <<tx, chainId>>

\* wallet.sendTransaction(tx, { estimateTxDependencies, awaitExecution })
sendTransaction(c) ==
  \E optEst \in OptionValues, optAw \in OptionValues : Begin(c, "send", optEst, optAw)

\* wallet.simulateTransaction(tx, { estimateTxDependencies })
simulateTransaction(c) ==
  \E optEst \in OptionValues : Begin(c, "simulate", optEst, "omitted")

\* wallet.populateTransactionWitnessesSignature(tx), called directly.
populateTransactionWitnessesSignature(c) ==
  /\ calls[c].pc = "idle"
  /\ LET cr == [IdleCall EXCEPT !.kind = "populate", !.start = tx]
     IN \E n \in signTransactionSync(cr, tx) : calls' = [calls EXCEPT ![c] = n]
  /\ UNCHANGED <<tx, chainId>>

\* provider.estimateTxDependencies settles: the call resumes into witness
\* population, or ends with the provider's error.
EstimateSettle(c) ==
  /\ calls[c].pc = "awaitEstimate"
  /\ \/ \E e \in ProviderErrors :
          /\ calls' = [calls EXCEPT ![c] = Raise(calls[c], "estimate.err", e)]
          /\ UNCHANGED tx
     \/ \E t2 \in EstimateRewrites(tx) :
          /\ tx' = t2
          /\ \E n \in signTransactionSync([calls[c] EXCEPT !.log = Append(@, "estimate.ok")], t2) :
               calls' = [calls EXCEPT ![c] = n]
  /\ UNCHANGED chainId

\* signTransaction going on into the witness write instead of returning.
ReturnsSignatureMessageOnly(kind) == kind = "signMessage"

\* The calls that end when the signature is there: signMessage and signTransaction
\* return it, and write nothing.
ReturnsSignature(kind) == kind \in {"signMessage", "signTransaction"}

\* `await this.signer().sign(...)` resumes: signMessage / signTransaction return the
\* signature, to the caller or to populateTransactionWitnessesSignature's await.
SignResume(c) ==
  /\ calls[c].pc = "awaitSign"
  /\ calls' = [calls EXCEPT ![c] =
       IF ReturnsSignature(calls[c].kind)
       THEN [@ EXCEPT !.pc = "done", !.ret = SigVal(calls[c].sig)]
       ELSE [@ EXCEPT !.pc = "awaitSignTransaction"]]
  /\ UNCHANGED <<tx, chainId>>

\* The owner whose witness slot the wallet writes.
WitnessOwner == address

\* The signature appended as a new witness instead of written to the owner's slot.
WriteWitnessAppended(t, s) ==
  [ok |-> TRUE, tx |-> [t EXCEPT !.witnesses = Append(@, s)], err |-> "none"]

\* transactionRequest.updateWitnessByOwner(this.address, signedTransaction)
WriteWitness(t, s) == updateWitnessByOwner(t, WitnessOwner, s)

\* The witness population run a second time before the hand-off.
NextAfterWitnessTwice(cr) ==
  IF cr.kind = "populate" THEN "done"
  ELSE IF \A i \in 1..Len(cr.log) : cr.log[i] # "setWitness" THEN "awaitSignTransaction"
  ELSE "awaitPopulate"

\* Where the call goes once its witness is written: populate returns the request,
\* to the caller or to the await in sendTransaction / simulateTransaction.
NextAfterWitness(cr) == IF cr.kind = "populate" THEN "done" ELSE "awaitPopulate"

\* `await this.signTransaction(...)` resumes: the witness is written.
PopulateResume(c) ==
  /\ calls[c].pc = "awaitSignTransaction"
  /\ LET cr == calls[c]
         r == WriteWitness(tx, cr.sig)
     IN IF r.ok
        THEN /\ tx' = r.tx
             /\ calls' = [calls EXCEPT ![c] =
                  [cr EXCEPT !.log = Append(@, "setWitness"),
                             !.pc = NextAfterWitness(cr),
                             !.ret = IF cr.kind = "populate" THEN TxVal(r.tx) ELSE NoVal]]
        ELSE /\ calls' = [calls EXCEPT ![c] = Raise(cr, "setWitness.err", r.err)]
             /\ UNCHANGED tx
  /\ UNCHANGED chainId

\* The await of the witness population left out.
HandoffEarly(cr) == cr.pc \in {"awaitPopulate", "awaitSignTransaction"}

\* The populated transaction may go to the provider.
HandoffReady(cr) == cr.pc = "awaitPopulate"

\* `await this.populateTransactionWitnessesSignature(...)` resumes: the provider's
\* entry point is invoked with the transaction.
Handoff(c) ==
  /\ HandoffReady(calls[c])
  /\ LET cr == calls[c]
         o == ProviderOptions(cr)
     IN calls' = [calls EXCEPT ![c] =
          [cr EXCEPT !.pc = "awaitProvider",
                     !.entry = ProviderEntry(cr.kind),
                     !.opts = o,
                     !.handed = tx,
                     !.log = Append(@, ProviderEntry(cr.kind)),
                     !.sent = @ \o <<TxVal(tx), OptsVal(o)>>]]
  /\ UNCHANGED <<tx, chainId>>

\* The witnesses put back as they were when the call began.
TxRolledBack(c) == [tx EXCEPT !.witnesses = calls[c].start.witnesses]

\* The transaction after the provider rejected it: the wallet undoes nothing.
TxAfterRejection(c) == tx

\* The provider's entry point settles; the wallet returns its promise as it is.
ProviderSettle(c) ==
  /\ calls[c].pc = "awaitProvider"
  /\ \/ \E e \in ProviderErrors :
          /\ calls' = [calls EXCEPT ![c] = Raise(calls[c], "provider.err", e)]
          /\ tx' = TxAfterRejection(c)
     \/ \E t2 \in ProviderRewrites(tx, calls[c].opts) :
          /\ tx' = t2
          /\ calls' = [calls EXCEPT ![c] =
               [@ EXCEPT !.pc = "done", !.log = Append(@, "provider.ok"),
                         !.ret = ResultVal(calls[c].entry)]]
  /\ UNCHANGED chainId

\* The caller takes the settled promise's outcome.
Collect(c) ==
  /\ calls[c].pc \in {"done", "failed"}
  /\ calls' = [calls EXCEPT ![c] = IdleCall]
  /\ UNCHANGED <<tx, chainId>>

\* wallet.signTransaction(tx), called directly.
signTransaction(c) ==
  /\ calls[c].pc = "idle"
  /\ LET cr == [IdleCall EXCEPT !.kind = "signTransaction", !.start = tx]
     IN \E n \in signTransactionSync(cr, tx) : calls' = [calls EXCEPT ![c] = n]
  /\ UNCHANGED <<tx, chainId>>

Messages == {"hello", "bye"}

\* The messages a caller may sign: texts, and the text whose bytes are those of the
\* transaction under the current chain id.
MessageBytes == {TextBytes(m) : m \in Messages} \cup {TxBytes(tx, chainId)}

\* The message hashed as a transaction is.
MessageDigestTxDomain(b) == [hashMessageBytes(b) EXCEPT !.dom = "tx"]

\* hashMessage(message), as signMessage calls it.
MessageDigest(b) == hashMessageBytes(b)

\* wallet.signMessage(message)
signMessage(c) ==
  /\ calls[c].pc = "idle"
  /\ \E m \in MessageBytes :
       calls' = [calls EXCEPT ![c] =
         [IdleCall EXCEPT !.kind = "signMessage", !.start = tx, !.pc = "awaitSign",
                          !.sig = Sign(signer.privateKey, MessageDigest(m)),
                          !.log = <<"hashMessage", "sign">>]]
  /\ UNCHANGED <<tx, chainId>>

\* get privateKey()
privateKeyGetter == signer.privateKey

\* The public-key accessor returning the signer's private key.
publicKeyGetterWrongField == signer.privateKey

\* get publicKey()
publicKeyGetter == signer.publicKey

\* wallet.privateKey, wallet.publicKey: the accessors return at once.
Accessor(c) ==
  /\ calls[c].pc = "idle"
  /\ \E k \in {"privateKey", "publicKey"} :
       calls' = [calls EXCEPT ![c] =
         [IdleCall EXCEPT !.kind = k, !.start = tx, !.pc = "done",
                          !.ret = StrVal(IF k = "privateKey" THEN privateKeyGetter
                                         ELSE publicKeyGetter)]]
  /\ UNCHANGED <<tx, chainId>>

Passwords == {"pw"}

\* encryptKeystoreWallet(this.privateKey, this.address, password): its arguments.
KeystoreArgs(password) == <<StrVal(privateKeyGetter), StrVal(address), StrVal(password)>>

\* wallet.encrypt(password): the keystore collaborator is called.
encrypt(c) ==
  /\ calls[c].pc = "idle"
  /\ \E p \in Passwords :
       calls' = [calls EXCEPT ![c] =
         [IdleCall EXCEPT !.kind = "encrypt", !.start = tx, !.pc = "awaitKeystore",
                          !.log = <<"encryptKeystoreWallet">>,
                          !.sent = KeystoreArgs(p)]]
  /\ UNCHANGED <<tx, chainId>>

\* The keystore collaborator returns its encrypted blob.
KeystoreSettle(c) ==
  /\ calls[c].pc = "awaitKeystore"
  /\ calls' = [calls EXCEPT ![c] = [@ EXCEPT !.pc = "done", !.ret = ResultVal("keystore")]]
  /\ UNCHANGED <<tx, chainId>>

\* No call is pending on the transaction.
Quiet == \A d \in Calls : calls[d].pc = "idle"

\* The caller adds an input owned by o to the request, between calls.
AddInput ==
  /\ Quiet
  /\ Len(tx.inputs) < MaxInputs
  /\ \E o \in Owners \cup {NoOwner} :
       LET os == [i \in 1..Len(tx.inputs) |-> tx.inputs[i].owner] \o <<o>>
       IN tx' = [tx EXCEPT !.inputs = MkInputs(os)]
  /\ UNCHANGED <<chainId, calls, cliVars>>

\* The provider is connected to another chain, between calls.
ChainChange ==
  /\ Quiet
  /\ \E n \in (1..MaxChainId) \ {chainId} : chainId' = n
  /\ UNCHANGED <<tx, calls, cliVars>>

\* No other call is pending on the transaction (the single-writer discipline).
Exclusive(c) == \A d \in Calls \ {c} : calls[d].pc = "idle"

Next ==
  \/ \E c \in Calls :
       \/ Exclusive(c) /\ sendTransaction(c) /\ UNCHANGED cliVars
       \/ Exclusive(c) /\ simulateTransaction(c) /\ UNCHANGED cliVars
       \/ Exclusive(c) /\ populateTransactionWitnessesSignature(c) /\ UNCHANGED cliVars
       \/ Exclusive(c) /\ signTransaction(c) /\ UNCHANGED cliVars
       \/ Exclusive(c) /\ signMessage(c) /\ UNCHANGED cliVars
       \/ Exclusive(c) /\ Accessor(c) /\ UNCHANGED cliVars
       \/ Exclusive(c) /\ encrypt(c) /\ UNCHANGED cliVars
       \/ EstimateSettle(c) /\ UNCHANGED cliVars
       \/ SignResume(c) /\ UNCHANGED cliVars
       \/ PopulateResume(c) /\ UNCHANGED cliVars
       \/ Handoff(c) /\ UNCHANGED cliVars
       \/ ProviderSettle(c) /\ UNCHANGED cliVars
       \/ KeystoreSettle(c) /\ UNCHANGED cliVars
       \/ Collect(c) /\ UNCHANGED cliVars
  \/ AddInput
  \/ ChainChange

Spec == Init /\ [][Next]_vars

\* A lock on the transaction: a call starts only when no other is pending.
MayStartLocked(c) == Exclusive(c)

\* What the wallet itself asks before a call starts on a transaction another call
\* is pending on: nothing, it holds no lock.
MayStart(c) == TRUE

StartSend(c) == MayStart(c) /\ sendTransaction(c)

StartSimulate(c) == MayStart(c) /\ simulateTransaction(c)

StartPopulate(c) == MayStart(c) /\ populateTransactionWitnessesSignature(c)

\* The calls as the wallet admits them: a caller that does not serialize them has
\* several pending on the one transaction, their steps interleaved at the awaits.
NextConcurrent ==
  \E c \in Calls :
    \/ StartSend(c) /\ UNCHANGED cliVars
    \/ StartSimulate(c) /\ UNCHANGED cliVars
    \/ StartPopulate(c) /\ UNCHANGED cliVars
    \/ EstimateSettle(c) /\ UNCHANGED cliVars
    \/ SignResume(c) /\ UNCHANGED cliVars
    \/ PopulateResume(c) /\ UNCHANGED cliVars
    \/ Handoff(c) /\ UNCHANGED cliVars
    \/ ProviderSettle(c) /\ UNCHANGED cliVars
    \/ Collect(c) /\ UNCHANGED cliVars

\* A transaction not yet signed whose inputs are the wallet's, with room for the
\* one input an estimation adds.
InitConcurrent ==
  /\ tx = [inputs |-> MkInputs([i \in 1..(MaxInputs - 1) |-> address]),
           outputs |-> 0, witnesses |-> <<>>]
  /\ chainId = 1
  /\ calls = [c \in Calls |-> IdleCall]
  /\ cli = IdleCli
  /\ fs = FreshFs(ProgramKeys)

SpecConcurrent == InitConcurrent /\ [][NextConcurrent]_vars

\* The scaffold CLI run from a shell, over and again; the template ships with its
\* workspace members in one of the orders they can stand in.
NextScaffold ==
  \/ runScaffoldCli
  \/ promptForProjectPath
  \/ promptForPackageManager
  \/ promptForProgramsToInclude
  \/ Mkdir
  \/ Cp
  \/ RenameGitignore
  \/ WriteProject
  \/ ScaffoldReturn

InitScaffold ==
  /\ tx = EmptyTx
  /\ chainId = 1
  /\ calls = [c \in Calls |-> IdleCall]
  /\ cli = IdleCli
  /\ \E m \in MemberOrders : fs = FreshFs(m)

SpecScaffold == InitScaffold /\ [][NextScaffold]_vars

\* ------------------------------------------------------------ properties
\* The positions of event ev in a call's log.
Pos(log, ev) == {i \in 1..Len(log) : log[i] = ev}

Count(log, ev) == Cardinality(Pos(log, ev))

\* Every occurrence of b in the log comes after an occurrence of a.
Precedes(log, a, b) == \A j \in Pos(log, b) : \E i \in Pos(log, a) : i < j

Last(log) == IF log = <<>> THEN "none" ELSE log[Len(log)]

Submission(cr) == cr.kind \in {"send", "simulate"}

\* The order of one call's steps: estimation (if any) is over before the chain id
\* is read and the digest taken; digest, signature, witness, hand-off follow.
Ordered(cr, entry) ==
  /\ Precedes(cr.log, "estimate.call", "estimate.ok")
  /\ (Pos(cr.log, "estimate.call") # {} => EstimateOption(cr.est))
  /\ (EstimateOption(cr.est) => Precedes(cr.log, "estimate.ok", "getChain")
                                /\ Precedes(cr.log, "estimate.ok", "digest"))
  /\ \A i \in Pos(cr.log, "estimate.call"), j \in Pos(cr.log, "digest") : i < j
  /\ Precedes(cr.log, "digest", "sign")
  /\ Precedes(cr.log, "sign", "setWitness")
  /\ Precedes(cr.log, "setWitness", entry)

\* C1: in every sendTransaction call the steps are in the order estimation (only
\* when enabled), witness population, provider submit: submit is never invoked
\* before the witness of the same call is written, and an estimation is over
\* before the digest is computed and signed.
C1_SendOrder ==
  \A c \in Calls : calls[c].kind = "send" => Ordered(calls[c], "provider.sendTransaction")

\* A sendTransaction with estimation that rewrote the inputs, handed to the provider.
C1_Witness ==
  \E c \in Calls :
    /\ calls[c].kind = "send" /\ calls[c].pc = "awaitProvider"
    /\ Pos(calls[c].log, "estimate.ok") # {}
    /\ calls[c].handed.inputs # calls[c].start.inputs

\* C2: within one sendTransaction or simulateTransaction no estimation follows the
\* witness population: the wallet never calls estimateTxDependencies after it, it
\* passes estimateTxDependencies disabled to the provider's entry point whatever
\* the caller asked for, so the inputs stay as handed off, and no call is
\* submitted or simulated without its witness written first.
C2_NoEstimationAfterWitness ==
  \A c \in Calls :
    LET cr == calls[c]
    IN Submission(cr) =>
         /\ \A i \in Pos(cr.log, "estimate.call"), j \in Pos(cr.log, "setWitness") : i < j
         /\ (cr.entry # "none" => cr.opts.estimateTxDependencies = "false")
         /\ Precedes(cr.log, "setWitness", "provider.sendTransaction")
         /\ Precedes(cr.log, "setWitness", "provider.call")
         /\ (cr.pc = "done" => /\ Pos(cr.log, "setWitness") # {}
                               /\ tx.inputs = cr.handed.inputs)

\* A sendTransaction whose caller asked for estimation, submitted.
C2_Witness ==
  \E c \in Calls :
    /\ calls[c].kind = "send" /\ calls[c].pc = "done" /\ calls[c].est = "true"
    /\ Len(tx.inputs) < MaxInputs

\* C3: simulateTransaction is sequenced as sendTransaction is, and ends in the
\* provider's read-only entry point with utxoValidation enabled and
\* estimateTxDependencies disabled; it never invokes the committing entry point.
C3_SimulateOrder ==
  \A c \in Calls :
    LET cr == calls[c]
    IN cr.kind = "simulate" =>
         /\ Ordered(cr, "provider.call")
         /\ Pos(cr.log, "provider.sendTransaction") = {}
         /\ (cr.entry # "none" =>
               /\ cr.entry = "provider.call"
               /\ Pos(cr.log, "provider.call") # {}
               /\ cr.opts.utxoValidation = "true"
               /\ cr.opts.estimateTxDependencies = "false")
         /\ (cr.pc = "done" => cr.ret = ResultVal("provider.call"))

\* A simulateTransaction with estimation, simulated.
C3_Witness ==
  \E c \in Calls :
    /\ calls[c].kind = "simulate" /\ calls[c].pc = "done"
    /\ Pos(calls[c].log, "estimate.ok") # {}

\* C4: for a transaction with a single input owned by the wallet's address and no
\* witness, populateTransactionWitnessesSignature leaves exactly one witness slot,
\* holding the wallet's signature of the digest of the transaction with that slot
\* cleared.
C4_SingleInputOneWitness ==
  \A c \in Calls :
    LET cr == calls[c]
    IN (/\ cr.kind = "populate" /\ cr.pc = "done"
        /\ cr.start.inputs = MkInputs(<<address>>)
        /\ cr.start.witnesses = <<>>)
       => /\ Len(tx.witnesses) = 1
          /\ Verify(tx.witnesses[1], signer.publicKey,
                    getTransactionId([tx EXCEPT !.witnesses = <<EmptyWitness>>], chainId))
          /\ cr.ret = TxVal(tx)

\* populateTransactionWitnessesSignature returned for such a transaction.
C4_Witness ==
  \E c \in Calls :
    /\ calls[c].kind = "populate" /\ calls[c].pc = "done"
    /\ calls[c].start.inputs = MkInputs(<<address>>)
    /\ calls[c].start.witnesses = <<>>

Populating(cr) == cr.kind \in {"populate", "send", "simulate"}

\* C5: when no input of the transaction is owned by the wallet's address the
\* witness population fails with UnknownOwnerError, returns no transaction, and
\* the error leaves sendTransaction / simulateTransaction unchanged, nothing
\* handed to the provider.
C5_UnknownOwner ==
  \A c \in Calls :
    LET cr == calls[c]
    IN Populating(cr) =>
         /\ (Pos(cr.log, "setWitness.err") # {} =>
               /\ Last(cr.log) = "setWitness.err"
               /\ cr.pc = "failed" /\ cr.err = "UnknownOwnerError"
               /\ cr.ret = NoVal /\ cr.entry = "none"
               /\ getCoinInputWitnessIndexByOwner(tx, address) = -1
               /\ tx.witnesses = cr.start.witnesses)
         /\ (Pos(cr.log, "setWitness") # {} =>
               getCoinInputWitnessIndexByOwner(tx, address) >= 0)

\* A sendTransaction that failed with UnknownOwnerError.
C5_Witness ==
  \E c \in Calls :
    /\ calls[c].kind = "send" /\ calls[c].pc = "failed"
    /\ calls[c].err = "UnknownOwnerError"

\* The value is the wallet's private key.
Leaks(x) == x.t = "string" /\ x.v = signer.privateKey

LeaksTo(cr) == \E i \in 1..Len(cr.sent) : Leaks(cr.sent[i])

\* C6 as stated: no operation of the wallet returns the private key to the caller
\* or passes it to a collaborator.
C6_KeyNeverLeaves ==
  \A c \in Calls : ~Leaks(calls[c].ret) /\ ~LeaksTo(calls[c])

\* C6 amended: the private key is returned only by the privateKey accessor and is
\* passed to a collaborator only by encrypt (to the keystore encryption); publicKey,
\* signMessage, signTransaction, the witness population, sendTransaction and
\* simulateTransaction neither return it nor pass it on, and encrypt does not
\* return it.
C6_KeyLeavesOnlyByAccessorAndEncrypt ==
  \A c \in Calls :
    /\ (Leaks(calls[c].ret) => calls[c].kind = "privateKey")
    /\ (LeaksTo(calls[c]) => calls[c].kind = "encrypt" /\ calls[c].log[1] = "encryptKeystoreWallet")

\* encrypt returned: the key went to the keystore collaborator, not to the caller.
C6_Witness ==
  \E c \in Calls :
    /\ calls[c].kind = "encrypt" /\ calls[c].pc = "done"
    /\ LeaksTo(calls[c]) /\ ~Leaks(calls[c].ret)

\* The transaction is as a witness population under chain id ch leaves it: the
\* wallet's slot holds the wallet's signature of the transaction's digest.
Populated(t, ch) ==
  LET idx == getCoinInputWitnessIndexByOwner(t, address)
  IN /\ idx >= 0 /\ idx < Len(t.witnesses)
     /\ t.witnesses[idx + 1] = Sign(signer.privateKey, getTransactionId(t, ch))

\* C7: the witness population is idempotent: called again on the transaction a
\* first call left, nothing else changed and the chain id the same, it leaves the
\* witness list, length and slots, as the first call left it.
C7_PopulateIdempotent ==
  \A c \in Calls :
    LET cr == calls[c]
    IN (cr.kind = "populate" /\ cr.pc = "done" /\ Populated(cr.start, chainId))
       => tx.witnesses = cr.start.witnesses

\* A second witness population returned, on a transaction with two witness slots.
C7_Witness ==
  \E c \in Calls :
    /\ calls[c].kind = "populate" /\ calls[c].pc = "done"
    /\ Populated(calls[c].start, chainId)
    /\ Len(calls[c].start.witnesses) = 2

\* C8: each sendTransaction / simulateTransaction populates the witness exactly
\* once: one digest, one signature and one witness insertion by the time the
\* transaction is handed to the provider, and never more than one.
C8_PopulatesOnce ==
  \A c \in Calls :
    LET cr == calls[c]
    IN Submission(cr) =>
         /\ Count(cr.log, "digest") <= 1
         /\ Count(cr.log, "sign") <= 1
         /\ Count(cr.log, "setWitness") <= 1
         /\ (cr.entry # "none" =>
               /\ Count(cr.log, "digest") = 1
               /\ Count(cr.log, "sign") = 1
               /\ Count(cr.log, "setWitness") = 1
               /\ Precedes(cr.log, "setWitness", cr.entry))

\* A simulateTransaction handed to the provider.
C8_Witness ==
  \E c \in Calls :
    /\ calls[c].kind = "simulate" /\ calls[c].pc = "awaitProvider"
    /\ calls[c].entry = "provider.call"

ErrorEvents == {"estimate.err", "getChain.err", "setWitness.err", "provider.err"}

\* C9: no retry, no local recovery: in one sendTransaction / simulateTransaction
\* each collaborator entry point is invoked at most once; a failure of any ends the
\* call with that same error and is the call's last step (no signing and no
\* hand-off after a failed estimation, no hand-off after a failed population).
C9_NoRetry ==
  \A c \in Calls :
    LET cr == calls[c]
    IN Submission(cr) =>
         /\ Count(cr.log, "estimate.call") <= 1
         /\ Count(cr.log, "getChain") + Count(cr.log, "getChain.err") <= 1
         /\ Count(cr.log, "provider.sendTransaction") + Count(cr.log, "provider.call") <= 1
         /\ \A ev \in ErrorEvents :
              Pos(cr.log, ev) # {} =>
                /\ Last(cr.log) = ev
                /\ cr.pc = "failed"
                /\ cr.raised # "none" /\ cr.err = cr.raised
         /\ (cr.pc = "failed" => Last(cr.log) \in ErrorEvents)
         /\ (Pos(cr.log, "estimate.err") # {} =>
               Pos(cr.log, "sign") = {} /\ cr.entry = "none")
         /\ (Pos(cr.log, "setWitness.err") # {} => cr.entry = "none")

\* A sendTransaction ended by the failure of its estimation.
C9_Witness ==
  \E c \in Calls :
    /\ calls[c].kind = "send" /\ calls[c].pc = "failed"
    /\ Last(calls[c].log) = "estimate.err" /\ calls[c].err = "Timeout"

\* C10: no rollback: when the provider's submit or simulate fails (or is cancelled)
\* after the witness population, the transaction stays as it was handed off: the
\* wallet's slot holds the signature this call wrote and the inputs stay as the
\* estimation rewrote them.
C10_NoRollback ==
  \A c \in Calls :
    LET cr == calls[c]
        idx == getCoinInputWitnessIndexByOwner(tx, address)
    IN (Submission(cr) /\ cr.pc = "failed" /\ Last(cr.log) = "provider.err")
       => /\ tx = cr.handed
          /\ idx >= 0 /\ idx < Len(tx.witnesses)
          /\ tx.witnesses[idx + 1] = cr.sig
          /\ Len(tx.inputs) >= Len(cr.start.inputs)

\* A submit failed after an estimation that rewrote the inputs.
C10_Witness ==
  \E c \in Calls :
    /\ calls[c].kind = "send" /\ calls[c].pc = "failed"
    /\ Last(calls[c].log) = "provider.err"
    /\ tx.inputs # calls[c].start.inputs
    /\ tx.witnesses # calls[c].start.witnesses

\* The steps of a call are all among evs.
LogWithin(cr, evs) == \A i \in 1..Len(cr.log) : cr.log[i] \in evs

\* C11: signTransaction leaves the transaction's inputs, outputs and witness list
\* as they are and its only collaborator interaction is the chain-id retrieval (no
\* estimation, no submit, no simulate); signMessage makes no collaborator call.
C11_SigningIsPure ==
  \A c \in Calls :
    LET cr == calls[c]
    IN /\ cr.kind = "signTransaction" =>
            /\ tx = cr.start
            /\ LogWithin(cr, {"getChain", "getChain.err", "digest", "sign"})
            /\ Count(cr.log, "getChain") + Count(cr.log, "getChain.err") = 1
            /\ cr.sent = <<>> /\ cr.entry = "none"
            /\ (cr.pc = "done" => cr.ret.t = "signature")
       /\ cr.kind = "signMessage" =>
            /\ tx = cr.start
            /\ LogWithin(cr, {"hashMessage", "sign"})
            /\ cr.sent = <<>> /\ cr.entry = "none"

\* signTransaction returned for a transaction with an input of the wallet.
C11_Witness ==
  \E c \in Calls :
    /\ calls[c].kind = "signTransaction" /\ calls[c].pc = "done"
    /\ getCoinInputWitnessIndexByOwner(tx, address) >= 0

\* The wallet's slot holds a signature of the wallet that is not the signature of
\* the transaction's digest under chain id ch.
StaleSigned(t, ch) ==
  LET idx == getCoinInputWitnessIndexByOwner(t, address)
  IN /\ idx >= 0 /\ idx < Len(t.witnesses)
     /\ t.witnesses[idx + 1].signer = signer.publicKey
     /\ t.witnesses[idx + 1].digest # getTransactionId(t, ch)

\* C12: re-signing supersedes a stale signature, nothing is cached: when the inputs
\* or the chain id changed since an earlier witness population, the next one takes
\* the digest of the current contents and overwrites the same slot: the slot then
\* holds the signature of the current digest, the other slots are untouched and
\* the witness list has not grown.
C12_ResignSupersedes ==
  \A c \in Calls :
    LET cr == calls[c]
        idx == getCoinInputWitnessIndexByOwner(cr.start, address)
    IN (cr.kind = "populate" /\ cr.pc = "done" /\ StaleSigned(cr.start, chainId))
       => /\ Populated(tx, chainId)
          /\ getCoinInputWitnessIndexByOwner(tx, address) = idx
          /\ Len(tx.witnesses) = Len(cr.start.witnesses)
          /\ tx.witnesses[idx + 1] # cr.start.witnesses[idx + 1]
          /\ \A i \in 1..Len(tx.witnesses) :
               i # idx + 1 => tx.witnesses[i] = cr.start.witnesses[i]

\* The witness populated again after the inputs changed.
C12_Witness ==
  \E c \in Calls :
    LET cr == calls[c]
        idx == getCoinInputWitnessIndexByOwner(cr.start, address)
    IN /\ cr.kind = "populate" /\ cr.pc = "done" /\ StaleSigned(cr.start, chainId)
       /\ cr.start.witnesses[idx + 1].digest.inputs # cr.start.inputs

\* C13: the signature a witness population stores verifies against the digest of
\* the transaction as populated, and once the inputs are changed without signing
\* again it no longer verifies against the digest of the changed transaction.
C13_MutationDetectable ==
  /\ [](\A c \in Calls :
          (calls[c].kind = "populate" /\ calls[c].pc = "done") => Populated(tx, chainId))
  /\ [][(/\ Populated(tx, chainId)
         /\ tx'.inputs # tx.inputs
         /\ tx'.witnesses = tx.witnesses) => ~Populated(tx', chainId')]_vars

\* Between calls, the wallet's slot holds its signature of the transaction under the
\* current chain id but with other inputs.
C13_Witness ==
  LET idx == getCoinInputWitnessIndexByOwner(tx, address)
  IN /\ Quiet /\ StaleSigned(tx, chainId)
     /\ tx.witnesses[idx + 1].digest.dom = "tx"
     /\ tx.witnesses[idx + 1].digest.chainId = chainId
     /\ tx.witnesses[idx + 1].digest.inputs # tx.inputs

\* C14: for the same key signMessage and signTransaction never return the same
\* signature, whatever the message, the transaction and the chain id, even for the
\* message whose bytes are those of the transaction.
C14_DomainSeparation ==
  \A c \in Calls :
    LET cr == calls[c]
    IN /\ (cr.kind = "signMessage" /\ cr.pc = "done") =>
            \A ch \in 1..MaxChainId :
              cr.ret.v # Sign(signer.privateKey, getTransactionId(tx, ch))
       /\ (cr.kind = "signTransaction" /\ cr.pc = "done") =>
            \A b \in MessageBytes : cr.ret.v # Sign(signer.privateKey, hashMessageBytes(b))

\* signMessage returned for the message whose bytes are the transaction's.
C14_Witness ==
  \E c \in Calls :
    /\ calls[c].kind = "signMessage" /\ calls[c].pc = "done"
    /\ calls[c].sig.digest = hashMessageBytes(TxBytes(tx, chainId))

\* C15: signTransaction signs the digest under the chain id the provider reports at
\* the call; under any other chain id the digest of the same transaction differs
\* and the signature does not verify.
C15_ChainBinding ==
  \A c \in Calls :
    LET cr == calls[c]
    IN (cr.kind = "signTransaction" /\ cr.pc = "done") =>
         /\ cr.ret = SigVal(Sign(signer.privateKey, getTransactionId(cr.start, chainId)))
         /\ \A c2 \in (1..MaxChainId) \ {chainId} :
              /\ getTransactionId(cr.start, c2) # getTransactionId(cr.start, chainId)
              /\ ~Verify(cr.ret.v, signer.publicKey, getTransactionId(cr.start, c2))

\* signTransaction returned under a chain id other than the first.
C15_Witness ==
  \E c \in Calls :
    /\ calls[c].kind = "signTransaction" /\ calls[c].pc = "done"
    /\ chainId # 1

\* C16: sendTransaction and simulateTransaction call estimateTxDependencies once
\* when the option is true or left out and never when it is false; sendTransaction
\* hands the caller's awaitExecution on to the provider as given.
C16_Options ==
  \A c \in Calls :
    LET cr == calls[c]
    IN Submission(cr) =>
         /\ (cr.est = "false" => Count(cr.log, "estimate.call") = 0)
         /\ (cr.est \in {"true", "omitted"} => Count(cr.log, "estimate.call") = 1)
         /\ ((cr.kind = "send" /\ cr.entry # "none") => cr.opts.awaitExecution = cr.aw)

\* A sendTransaction with the estimation option left out and awaitExecution given.
C16_Witness ==
  \E c \in Calls :
    /\ calls[c].kind = "send" /\ calls[c].pc = "awaitProvider"
    /\ calls[c].est = "omitted" /\ calls[c].aw = "true"

\* C17: with one call at a time on the transaction, every transaction handed to the
\* provider carries in the wallet's slot the signature of its own digest: the
\* digest of the transaction as handed off, after the estimation's rewriting, under
\* the provider's current chain id.
C17_HandedOffSigned ==
  \A c \in Calls :
    LET cr == calls[c]
        idx == getCoinInputWitnessIndexByOwner(cr.handed, address)
    IN (Submission(cr) /\ cr.entry # "none") =>
         /\ Populated(cr.handed, chainId)
         /\ cr.handed.witnesses[idx + 1] = cr.sig

\* A simulateTransaction handed off after an estimation that rewrote the inputs.
C17_Witness ==
  \E c \in Calls :
    /\ calls[c].kind = "simulate" /\ calls[c].pc = "awaitProvider"
    /\ calls[c].handed.inputs # calls[c].start.inputs

\* C18: the wallet provides no mutual exclusion on a transaction: a call starts
\* whatever other call is pending on the same request, so that the steps of two
\* calls interleave at their awaits.
C18_NoMutualExclusion ==
  \A c \in Calls :
    calls[c].pc = "idle" =>
      /\ ENABLED StartSend(c)
      /\ ENABLED StartSimulate(c)
      /\ ENABLED StartPopulate(c)

\* Two calls pending: the estimation of one rewrote the inputs after the other took
\* its digest, and the other handed the provider a transaction whose wallet witness
\* is its own signature but not the signature of the digest of what it handed.
C18_Witness ==
  \E c \in Calls, d \in Calls :
    LET cr == calls[c]
        idx == getCoinInputWitnessIndexByOwner(cr.handed, address)
    IN /\ c # d
       /\ Submission(cr) /\ cr.pc = "awaitProvider"
       /\ Submission(calls[d]) /\ calls[d].pc \notin {"idle", "done", "failed"}
       /\ Pos(calls[d].log, "estimate.ok") # {}
       /\ cr.handed.witnesses[idx + 1] = cr.sig
       /\ cr.sig.digest.inputs # cr.handed.inputs
       /\ ~Populated(cr.handed, chainId)

\* ------------------------------------------------------------------ scaffold CLI
\* The call has settled its inputs and is creating the project, or has created it.
Mutating == cli.pc \in {"mkdir", "cp", "renameGitignore", "renameEnv", "done"}

\* The lines of an env file, as a set.
Lines(env) == {env[i] : i \in DOMAIN env}

\* The project directory of the call.
Project == fs.dirs[cli.projectPath]

\* C19: runScaffoldCli validates before it mutates.  A project path that exists, a
\* project path that is empty or undefined, and a selection of no program each
\* make it throw its own error, never go on to mkdir; and when it has thrown one of
\* these errors it has taken no step on the disk, which is as it was at the call.
C19_ValidatesBeforeMutating ==
  /\ Mutating \/ cli.effects # <<>> =>
       /\ ~Falsy(cli.projectPath)
       /\ cli.projectPath \notin DOMAIN cli.before
       /\ cli.programsToInclude \in ProgramSelections
       /\ \E p \in Programs : cli.programsToInclude[p]
  /\ cli.pc = "failed" /\ cli.err \in ValidationErrors =>
       /\ cli.effects = <<>>
       /\ fs.dirs = cli.before
       /\ \/ cli.err = "A folder already exists" /\ cli.projectPath \in DOMAIN fs.dirs
          \/ cli.err = "Please specify a project directory." /\ Falsy(cli.projectPath)
          \/ /\ cli.err = "You must include at least one Sway program."
             /\ cli.programsToInclude = Selected({})

\* The CLI has thrown for a selection of no program, given as an argument with a
\* project path that is free: no project directory was made.
C19_Witness ==
  /\ cli.pc = "failed"
  /\ cli.err = "You must include at least one Sway program."
  /\ cli.args.programs = Selected({})
  /\ cli.projectPath = FreePath
  /\ FreePath \notin DOMAIN fs.dirs

\* C20: after a successful runScaffoldCli the directory sway-programs/p is there
\* iff p was selected, the workspace members of Forc.toml are the members of the
\* template restricted to the selected programs in the template's order,
\* .env.local holds NEXT_PUBLIC_HAS_<P>=true iff p was selected (=false
\* otherwise), and at least one program is there.
C20_ArtifactsAgree ==
  cli.pc = "done" =>
    LET sel == cli.programsToInclude
    IN /\ \A p \in Programs :
            /\ ("sway-programs/" \o p) \in Project.files <=> sel[p]
            /\ EnvLine("NEXT_PUBLIC_HAS_" \o toUpperCase(p), "true")
                 \in Lines(Project.env) <=> sel[p]
            /\ EnvLine("NEXT_PUBLIC_HAS_" \o toUpperCase(p), "false")
                 \in Lines(Project.env) <=> ~sel[p]
       /\ ".env.local" \in Project.files
       /\ Len(Project.env) = Cardinality(Programs)
       /\ Project.members = SelectSeq(fs.template.members, LAMBDA m : sel[m])
       /\ \A i, j \in DOMAIN Project.members :
            i < j => \E k, l \in DOMAIN fs.template.members :
                       /\ k < l
                       /\ fs.template.members[k] = Project.members[i]
                       /\ fs.template.members[l] = Project.members[j]
       /\ \E p \in Programs : ("sway-programs/" \o p) \in Project.files

\* A successful run with two programs selected whose order in the template is not
\* the order of the keys of the selection.
C20_Witness ==
  /\ cli.pc = "done"
  /\ cli.programsToInclude = Selected({"contract", "script"})
  /\ fs.template.members = <<"script", "predicate", "contract">>
  /\ Project.members = <<"script", "contract">>
  /\ Project.installed
====
